---- MODULE Spec2Model ----
(***************************************************************************)
(* Model of services/api/app.py: a Flask service with one handler per      *)
(* endpoint, each opening its own psycopg2 connection to a PostgreSQL      *)
(* store holding the tables users and posts.                               *)
(*                                                                         *)
(* A request occupies a worker.  The handlers share nothing but the store, *)
(* so a handler is one step per statement that changes the store: a read   *)
(* handler is one step around its SELECT, a create handler is its INSERT   *)
(* (after validation and connection) and then its COMMIT.                  *)
(* The store (constraints, sequences, clock, transaction visibility) is    *)
(* PostgreSQL behind the schema the service expects.                       *)
(***************************************************************************)
EXTENDS Integers, Sequences, FiniteSets, TLC

\* ---------------------------------------------------------------- bounds
\* INSERT statements the store runs in one behaviour (users and posts).
MaxInserts == 3

Slots == {"w1", "w2"}
Sequential == {"w1"}
Usernames == {"alice", "bob"}
Emails == {"alice@example.com", "bob@example.com"}
Null == "<null>"
Titles == {"hello"}
Contents == {"body"}
Statuses == {"published"}

\* Identifiers requests ask for; owners create_post names.
UserIds == {1, 2}
PostIds == {1, 2}
Owners == {1, 2}

\* ----------------------------------------------------------------- state
VARIABLES
    users,        \* committed rows of table users
    posts,        \* committed rows of table posts
    userSeq,      \* last value of users.id's sequence
    postSeq,      \* last value of posts.id's sequence
    now,          \* the store's clock (created_at default)
    pc,           \* per slot: where the handler stands
    req,          \* per slot: the request being handled
    conn,         \* per slot: the handler's connection: none, open, closed
    tx,           \* per slot: rows inserted by the open transaction
    resp,         \* per slot: the response sent
    exc,          \* per slot: the exception the handler caught, or "none"
    raced,        \* per slot: the request overlapped another worker's create
    issuedUsers,  \* history: bodies of the 201 responses of create_user
    issuedPosts   \* history: bodies of the 201 responses of create_post

vars == <<users, posts, userSeq, postSeq, now, pc, req, conn, tx, resp,
          exc, raced, issuedUsers, issuedPosts>>

history == <<issuedUsers, issuedPosts>>

store == <<users, posts, userSeq, postSeq>>

\* -------------------------------------------------------------- payloads
\* request.get_json(): None, a JSON object, a JSON array or a JSON number.
\* keys are an object's keys or an array's elements (what `in` tests).
NoFields == [username |-> "", email |-> "", user_id |-> 0, title |-> "",
             content |-> "", status |-> ""]

Payload(kind, keys, f) ==
    [kind |-> kind, keys |-> keys,
     username |-> IF kind = "object" /\ "username" \in keys THEN f.username ELSE "",
     email |-> IF kind = "object" /\ "email" \in keys THEN f.email ELSE "",
     user_id |-> IF kind = "object" /\ "user_id" \in keys THEN f.user_id ELSE 0,
     title |-> IF kind = "object" /\ "title" \in keys THEN f.title ELSE "",
     content |-> IF kind = "object" /\ "content" \in keys THEN f.content ELSE "",
     status |-> IF kind = "object" /\ "status" \in keys THEN f.status ELSE ""]

NoData == Payload("none", {}, NoFields)

ValidUserPayloads ==
    {Payload("object", {"username", "email"},
             [NoFields EXCEPT !.username = u, !.email = e]) :
        u \in Usernames, e \in Emails}

UserPayloads ==
    ValidUserPayloads
    \cup {Payload("object", {"username", "email"},
                  [NoFields EXCEPT !.username = Null, !.email = "bob@example.com"]),
          Payload("object", {"username"}, [NoFields EXCEPT !.username = "alice"]),
          Payload("object", {"email"}, [NoFields EXCEPT !.email = "alice@example.com"]),
          Payload("object", {}, NoFields),
          Payload("array", {"username", "email"}, NoFields),
          Payload("array", {"username"}, NoFields),
          Payload("number", {}, NoFields),
          NoData}

PostPayloads ==
    {Payload("object", {"user_id", "title"} \cup opt,
             [NoFields EXCEPT !.user_id = i, !.title = t, !.content = c, !.status = s]) :
        opt \in SUBSET {"content", "status"},
        i \in Owners, t \in Titles, c \in Contents, s \in Statuses}
    \cup {Payload("object", {"title", "content"},
                  [NoFields EXCEPT !.title = "hello", !.content = "body"]),
          Payload("object", {"user_id"}, [NoFields EXCEPT !.user_id = 1]),
          Payload("array", {"user_id", "title"}, NoFields),
          NoData}

\* `not data`: None, {} and [] are falsy; the number modelled is non-zero.
Falsy(d) == d.kind = "none" \/ (d.kind \in {"object", "array"} /\ d.keys = {})

\* ------------------------------------------------------------- responses
Response(status, body) == [status |-> status, body |-> body]
NoResponse == Response(0, <<>>)
ErrorBody(msg) == [error |-> msg]

Request(op, id, d) == [op |-> op, id |-> id, data |-> d]

Idle == Request("none", 0, NoData)

Init ==
    /\ users = {} /\ posts = {}
    /\ userSeq = 0 /\ postSeq = 0 /\ now = 0
    /\ pc = [r \in Slots |-> "idle"]
    /\ req = [r \in Slots |-> Idle]
    /\ conn = [r \in Slots |-> "none"]
    /\ tx = [r \in Slots |-> {}]
    /\ resp = [r \in Slots |-> NoResponse]
    /\ exc = [r \in Slots |-> "none"]
    /\ raced = [r \in Slots |-> FALSE]
    /\ issuedUsers = {} /\ issuedPosts = {}

\* ------------------------------------------------ the handlers' own logic
\* L93 / L164: `not data or 'a' not in data or 'b' not in data`.
\* `in` on a number raises TypeError; on an array it tests the elements.
Validate(d, required) ==
    IF Falsy(d) THEN "bad_request"
    ELSE IF d.kind = "number" THEN "TypeError"
    ELSE IF \E k \in required : k \notin d.keys THEN "bad_request"
    ELSE "ok"

validate_create_user(d) == Validate(d, {"username", "email"})

validate_create_post(d) == Validate(d, {"user_id", "title"})

\* L100 / L174: data['k'] raises TypeError on an array, KeyError on a
\* missing key.
Subscript(d, subscripted) ==
    IF d.kind # "object" THEN "TypeError"
    ELSE IF \E k \in subscripted : k \notin d.keys THEN "KeyError"
    ELSE "ok"

\* L176: data.get('content', '')
content_or_default(d) == IF "content" \in d.keys THEN d.content ELSE ""

\* data.get('status'): no default given.
status_or_none(d) == IF "status" \in d.keys THEN d.status ELSE Null

\* L177: data.get('status', 'draft')
status_or_default(d) == IF "status" \in d.keys THEN d.status ELSE "draft"

\* psycopg2.IntegrityError and its subclasses (errors of SQLSTATE class 23).
IntegrityError == {"UniqueViolation", "NotNullViolation", "ForeignKeyViolation"}

\* create_user without its `except psycopg2.IntegrityError` clause.
create_user_except_generic(e) == Response(500, ErrorBody(e))

\* L108-111: the except clauses of create_user.
create_user_except(e) ==
    IF e \in IntegrityError
    THEN Response(409, ErrorBody("Username or email already exists"))
    ELSE Response(500, ErrorBody(e))

\* L29-30: the except clause of health.
health_except(e) == Response(503, [status |-> "unhealthy", error |-> e])

\* The `except Exception` clause of every other handler.
generic_except(e) == Response(500, ErrorBody(e))

except_response(op, e) ==
    CASE op = "create_user" -> create_user_except(e)
      [] op = "health" -> health_except(e)
      [] OTHER -> generic_except(e)

\* L94 / L165.
bad_request(op) ==
    IF op = "create_user"
    THEN Response(400, ErrorBody("username and email are required"))
    ELSE Response(400, ErrorBody("user_id and title are required"))

\* ------------------------------------------------------------- the store
\* Rows another open transaction has inserted and not yet committed: an
\* insert of the same unique key waits for that transaction to end.
Blocked(r, u, e) ==
    \E q \in Slots \ {r} :
        /\ req[q].op = "create_user"
        /\ \E row \in tx[q] : row.username = u \/ row.email = e

\* INSERT INTO users: username and email are NOT NULL and UNIQUE.
insert_user_error(u, e) ==
    IF u = Null \/ e = Null THEN "NotNullViolation"
    ELSE IF \E row \in users : row.username = u \/ row.email = e
         THEN "UniqueViolation"
    ELSE "ok"

\* INSERT INTO posts: user_id REFERENCES users(id).
insert_post_error(uid) ==
    IF \E row \in users : row.id = uid THEN "ok" ELSE "ForeignKeyViolation"

\* ------------------------------------------------------------ the queries
RECURSIVE SortById(_)
SortById(S) ==
    IF S = {} THEN <<>>
    ELSE LET m == CHOOSE x \in S : \A y \in S : x.id <= y.id
         IN <<m>> \o SortById(S \ {m})

\* L61: SELECT id, username, email, created_at FROM users ORDER BY id
select_users == SortById(users)

\* The same SELECT without its WHERE clause.
select_any_user(id) == users

\* L75: ... FROM users WHERE id = %s
select_user_by_id(id) == {u \in users : u.id = id}

\* L121-124: posts p LEFT JOIN users u ON p.user_id = u.id
JoinUser(p) ==
    [id |-> p.id, title |-> p.title, content |-> p.content, status |-> p.status,
     created_at |-> p.created_at, user_id |-> p.user_id,
     username |-> IF \E u \in users : u.id = p.user_id
                  THEN (CHOOSE u \in users : u.id = p.user_id).username
                  ELSE Null]

joined_posts == {JoinUser(p) : p \in posts}

\* L145: WHERE p.id = %s
select_post_by_id(id) == {p \in joined_posts : p.id = id}

\* L199: WHERE p.user_id = %s
select_posts_by_user(id) == {p \in joined_posts : p.user_id = id}

\* ORDER BY p.created_at (ascending, SQL's default).
OrderByCreatedAtAsc(s) ==
    \A i, j \in 1..Len(s) : i < j => s[i].created_at <= s[j].created_at

\* L125 / L200: ORDER BY p.created_at DESC
OrderByCreatedAtDesc(s) ==
    \A i, j \in 1..Len(s) : i < j => s[i].created_at >= s[j].created_at

\* The sequences a SELECT ... ORDER BY may return for the rows S: every
\* arrangement of S in the order asked (rows that tie come in any order).
Ordered(S) ==
    {s \in [1..Cardinality(S) -> S] :
        /\ \A i, j \in 1..Cardinality(S) : i # j => s[i] # s[j]
        /\ OrderByCreatedAtDesc(s)}

\* -------------------------------------------------- shaping the responses
\* get_user answering 200 whatever fetchone returned.
get_user_response_always_200(rows) ==
    IF rows # {} THEN Response(200, CHOOSE u \in rows : TRUE)
    ELSE Response(200, ErrorBody("User not found"))

\* L80-83
get_user_response(rows) ==
    IF rows # {} THEN Response(200, CHOOSE u \in rows : TRUE)
    ELSE Response(404, ErrorBody("User not found"))

\* L151-154
get_post_response(rows) ==
    IF rows # {} THEN Response(200, CHOOSE p \in rows : TRUE)
    ELSE Response(404, ErrorBody("Post not found"))

\* get_user_posts treating an empty result as get_user treats no row.
get_user_posts_response_or_404(s) ==
    IF Len(s) = 0 THEN Response(404, ErrorBody("User not found"))
    ELSE Response(200, s)

\* L205
get_user_posts_response(s) == Response(200, s)

\* L130
list_posts_response(s) == Response(200, s)

\* L65
list_users_response(s) == Response(200, s)

\* return jsonify(row), 200
created_response_200(row) == Response(200, row)

\* L107 / L184
created_response(row) == Response(201, row)

\* L28
health_response == Response(200, [status |-> "healthy", database |-> "connected"])

\* --------------------------------------------------------------- actions
Reads == {"list_users", "get_user", "list_posts", "get_post", "get_user_posts"}

Creates == {"create_user", "create_post"}

\* INSERTs run so far, and those the handlers in flight will still run.
Inserts == userSeq + postSeq + Cardinality({q \in Slots : pc[q] = "execute"})

\* The response leaves with the handler's return; the worker keeps it until
\* it is recycled.
Send(r, response) ==
    /\ resp' = [resp EXCEPT ![r] = response]
    /\ pc' = [pc EXCEPT ![r] = "sent"]
    /\ UNCHANGED exc

\* The handler's try block raises e: its except clauses build the response.
Raise(r, op, e) ==
    /\ resp' = [resp EXCEPT ![r] = except_response(op, e)]
    /\ pc' = [pc EXCEPT ![r] = "sent"]
    /\ exc' = [exc EXCEPT ![r] = e]

CreatingUser(q) == req[q].op = "create_user" /\ pc[q] \in {"execute", "commit"}

Accept(r, op, id, d) ==
    /\ pc[r] = "idle"
    /\ req' = [req EXCEPT ![r] = Request(op, id, d)]
    /\ raced' = [q \in Slots |->
                    IF q = r THEN op = "create_user" /\ \E o \in Slots \ {r} : CreatingUser(o)
                    ELSE raced[q] \/ (op = "create_user" /\ CreatingUser(q))]

\* L22-28: the connection is opened and closed at once.
health(r) ==
    /\ Accept(r, "health", 0, NoData)
    /\ conn' = [conn EXCEPT ![r] = "closed"]
    /\ Send(r, health_response)
    /\ UNCHANGED <<store, now, tx, history>>

\* A read handler whose store calls succeed: connect, execute, fetch,
\* cur.close(), conn.close(), return.
Read(r, op, id, response) ==
    /\ Accept(r, op, id, NoData)
    /\ conn' = [conn EXCEPT ![r] = "closed"]
    /\ Send(r, response)
    /\ UNCHANGED <<store, now, tx, history>>

\* L55-65
list_users(r) == Read(r, "list_users", 0, list_users_response(select_users))

\* L69-83
get_user(r) ==
    \E id \in UserIds :
        Read(r, "get_user", id, get_user_response(select_user_by_id(id)))

\* L114-130
list_posts(r) ==
    \E s \in Ordered(joined_posts) : Read(r, "list_posts", 0, list_posts_response(s))

\* L134-154
get_post(r) ==
    \E id \in PostIds :
        Read(r, "get_post", id, get_post_response(select_post_by_id(id)))

\* L188-205
get_user_posts(r) ==
    \E id \in UserIds : \E s \in Ordered(select_posts_by_user(id)) :
        Read(r, "get_user_posts", id, get_user_posts_response(s))

\* A create request arrives: L91-96 / L162-167.  A payload that passes the
\* check gets a connection and stands before its INSERT.
Create(r, op, d, verdict) ==
    /\ Accept(r, op, 0, d)
    /\ CASE verdict = "ok" ->
                /\ conn' = [conn EXCEPT ![r] = "open"]
                /\ pc' = [pc EXCEPT ![r] = "execute"]
                /\ UNCHANGED <<resp, exc>>
         [] verdict = "bad_request" ->
                Send(r, bad_request(op)) /\ UNCHANGED conn
         [] OTHER ->
                Raise(r, op, verdict) /\ UNCHANGED conn
    /\ UNCHANGED <<store, now, tx, history>>

create_user(r) ==
    /\ Inserts < MaxInserts
    /\ \E d \in UserPayloads : Create(r, "create_user", d, validate_create_user(d))

create_post(r) ==
    /\ Inserts < MaxInserts
    /\ \E d \in PostPayloads : Create(r, "create_post", d, validate_create_post(d))

\* The row INSERT ... RETURNING builds from the parameters and the defaults.
new_user(d) ==
    [id |-> userSeq + 1, username |-> d.username, email |-> d.email,
     created_at |-> now]

new_post(d) ==
    [id |-> postSeq + 1, user_id |-> d.user_id, title |-> d.title,
     content |-> content_or_default(d), status |-> status_or_default(d),
     created_at |-> now]

\* L98-101: the parameters are evaluated, then the INSERT runs.  An error
\* raised here reaches the except clauses with the connection still open.
execute_insert_user(r) ==
    LET d == req[r].data
        sub == Subscript(d, {"username", "email"})
        err == insert_user_error(d.username, d.email)
    IN  /\ pc[r] = "execute"
        /\ req[r].op = "create_user"
        /\ IF sub # "ok"
           THEN /\ Raise(r, "create_user", sub)
                /\ UNCHANGED <<store, tx>>
           ELSE /\ userSeq' = userSeq + 1
                /\ UNCHANGED <<users, posts, postSeq>>
                /\ IF err # "ok"
                   THEN /\ Raise(r, "create_user", err)
                        /\ UNCHANGED tx
                   ELSE /\ ~Blocked(r, d.username, d.email)
                        /\ tx' = [tx EXCEPT ![r] = {new_user(d)}]
                        /\ pc' = [pc EXCEPT ![r] = "commit"]
                        /\ UNCHANGED <<resp, exc>>
        /\ UNCHANGED <<now, req, conn, raced, history>>

\* L169-178
execute_insert_post(r) ==
    LET d == req[r].data
        sub == Subscript(d, {"user_id", "title"})
        err == insert_post_error(d.user_id)
    IN  /\ pc[r] = "execute"
        /\ req[r].op = "create_post"
        /\ IF sub # "ok"
           THEN /\ Raise(r, "create_post", sub)
                /\ UNCHANGED <<store, tx>>
           ELSE /\ postSeq' = postSeq + 1
                /\ UNCHANGED <<users, posts, userSeq>>
                /\ IF err # "ok"
                   THEN /\ Raise(r, "create_post", err)
                        /\ UNCHANGED tx
                   ELSE /\ tx' = [tx EXCEPT ![r] = {new_post(d)}]
                        /\ pc' = [pc EXCEPT ![r] = "commit"]
                        /\ UNCHANGED <<resp, exc>>
        /\ UNCHANGED <<now, req, conn, raced, history>>

\* L102-107 / L179-184: fetchone, commit, cur.close(), conn.close(), return.
commit(r) ==
    /\ pc[r] = "commit"
    /\ IF req[r].op = "create_user"
       THEN /\ users' = users \cup tx[r]
            /\ issuedUsers' = issuedUsers \cup tx[r]
            /\ UNCHANGED <<posts, issuedPosts>>
       ELSE /\ posts' = posts \cup tx[r]
            /\ issuedPosts' = issuedPosts \cup tx[r]
            /\ UNCHANGED <<users, issuedUsers>>
    /\ Send(r, created_response(CHOOSE row \in tx[r] : TRUE))
    /\ tx' = [tx EXCEPT ![r] = {}]
    /\ conn' = [conn EXCEPT ![r] = "closed"]
    /\ UNCHANGED <<userSeq, postSeq, now, req, raced>>

\* The requests whose handler issues a SELECT.
ReadRequests ==
    {Request(op, 0, NoData) : op \in {"list_users", "list_posts"}}
    \cup {Request(op, id, NoData) : op \in {"get_user", "get_user_posts"}, id \in UserIds}
    \cup {Request("get_post", id, NoData) : id \in PostIds}

\* The requests whose handler reaches get_db_connection().
ConnectingRequests ==
    {Request("health", 0, NoData)} \cup ReadRequests
    \cup {Request("create_user", 0, d) :
            d \in {x \in UserPayloads : validate_create_user(x) = "ok"}}
    \cup {Request("create_post", 0, d) :
            d \in {x \in PostPayloads : validate_create_post(x) = "ok"}}

\* psycopg2.connect raises (store unreachable): the handler's except clause
\* answers; there is no connection.
get_db_connection_fails(r) ==
    /\ \E q \in ConnectingRequests :
        /\ Accept(r, q.op, q.id, q.data)
        /\ Raise(r, q.op, "OperationalError")
    /\ UNCHANGED <<store, now, conn, tx, history>>

\* cur.execute or a fetch of a read handler raises for a reason of the
\* store's own (the connection drops): the except clause answers, and
\* nothing has closed the connection.
select_fails(r) ==
    /\ \E q \in ReadRequests :
        /\ Accept(r, q.op, q.id, q.data)
        /\ Raise(r, q.op, "OperationalError")
    /\ conn' = [conn EXCEPT ![r] = "open"]
    /\ UNCHANGED <<store, now, tx, history>>

\* cur.execute of an INSERT raises for such a reason.
insert_fails(r) ==
    /\ pc[r] = "execute"
    /\ Raise(r, req[r].op, "OperationalError")
    /\ UNCHANGED <<store, now, req, conn, tx, raced, history>>

\* fetchone or commit raises: the transaction stays open, uncommitted.
commit_fails(r) ==
    /\ pc[r] = "commit"
    /\ Raise(r, req[r].op, "OperationalError")
    /\ UNCHANGED <<store, now, req, conn, tx, raced, history>>

\* The worker is free again; a connection the handler left open is closed
\* by the runtime or the server, which rolls its transaction back.
recycle(r) ==
    /\ pc[r] = "sent"
    /\ pc' = [pc EXCEPT ![r] = "idle"]
    /\ req' = [req EXCEPT ![r] = Idle]
    /\ resp' = [resp EXCEPT ![r] = NoResponse]
    /\ conn' = [conn EXCEPT ![r] = "none"]
    /\ tx' = [tx EXCEPT ![r] = {}]
    /\ exc' = [exc EXCEPT ![r] = "none"]
    /\ raced' = [raced EXCEPT ![r] = FALSE]
    /\ UNCHANGED <<store, now, history>>

\* The store's clock advances.  Only the order of the timestamps the rows
\* carry is observable, so the clock moves on once a row carries its reading.
Stamped ==
    \/ \E row \in users : row.created_at = now
    \/ \E row \in posts : row.created_at = now
    \/ \E q \in Slots : \E row \in tx[q] : row.created_at = now

tick ==
    /\ Stamped
    /\ now' = now + 1
    /\ UNCHANGED <<store, pc, req, conn, tx, resp, exc, raced, history>>

UserEndpoints(r) ==
    \/ health(r) \/ list_users(r) \/ get_user(r) \/ create_user(r)
    \/ execute_insert_user(r)

PostEndpoints(r) ==
    \/ list_posts(r) \/ get_post(r) \/ create_post(r) \/ get_user_posts(r)
    \/ execute_insert_post(r)

Faults(r) ==
    \/ get_db_connection_fails(r) \/ select_fails(r)
    \/ insert_fails(r) \/ commit_fails(r)

\* The service taking one request at a time, over a store that may fail.
Next ==
    \/ tick
    \/ \E r \in Sequential :
        UserEndpoints(r) \/ PostEndpoints(r) \/ commit(r) \/ recycle(r) \/ Faults(r)

Spec == Init /\ [][Next]_vars

\* The same while the store is reachable and fails a statement only by a
\* constraint of the schema.
NextUp ==
    \/ tick
    \/ \E r \in Sequential :
        UserEndpoints(r) \/ PostEndpoints(r) \/ commit(r) \/ recycle(r)

SpecUp == Init /\ [][NextUp]_vars

\* Two workers serving the users endpoints concurrently, the store up.
NextRace == tick \/ \E r \in Slots : UserEndpoints(r) \/ commit(r) \/ recycle(r)

SpecRace == Init /\ [][NextRace]_vars

\* ---------------------------------------------------------------- claims
Sent(r) == pc[r] = "sent"

Handled(r, op) == Sent(r) /\ req[r].op = op

\* A payload has field k: it is a JSON object with that key.
HasField(d, k) == d.kind = "object" /\ k \in d.keys

StoreErrors == IntegrityError \cup {"OperationalError"}

ConflictBody == ErrorBody("Username or email already exists")

\* C1: no response is sent while the connection its request acquired is
\* still open, whatever the exit path of the handler.
C1_ReleasedBeforeResponse ==
    \A r \in Slots : Sent(r) => conn[r] # "open"

\* C3: a create payload lacking a required field is answered 400 and its
\* handler has acquired no connection (so it ran no statement and left the
\* rows alone).
C3_MissingFieldIs400 ==
    \A r \in Slots :
        /\ Handled(r, "create_user")
             /\ (~HasField(req[r].data, "username") \/ ~HasField(req[r].data, "email"))
           => resp[r].status = 400 /\ conn[r] = "none"
        /\ Handled(r, "create_post")
             /\ (~HasField(req[r].data, "user_id") \/ ~HasField(req[r].data, "title"))
           => resp[r].status = 400 /\ conn[r] = "none"

\* C4: create-user answers a store failure with 409 exactly when it is a
\* uniqueness violation, and with 500 and the underlying message for every
\* other store failure; create-post answers every store failure with 500.
C4_ConflictOnlyForUniqueness ==
    \A r \in Slots :
        Sent(r) /\ exc[r] \in StoreErrors =>
            /\ req[r].op = "create_user" =>
                IF exc[r] = "UniqueViolation"
                THEN resp[r] = Response(409, ConflictBody)
                ELSE resp[r] = Response(500, ErrorBody(exc[r]))
            /\ req[r].op = "create_post" => resp[r] = Response(500, ErrorBody(exc[r]))

NoDuplicates(s) ==
    \A i, j \in 1..Len(s) :
        i # j => s[i].username # s[j].username /\ s[i].email # s[j].email

\* The worker's create-user INSERT runs in this step.
InsertsUser(r) ==
    pc[r] = "execute" /\ pc'[r] # "execute" /\ req[r].op = "create_user"

\* C2: once create-user has answered 201 for a username, a create-user
\* carrying that username and another email is answered 409 with the body
\* {"error": "Username or email already exists"}; and no list-users
\* response holds two rows with the same username or the same email.
C2_DuplicateUsernameRejected ==
    [][/\ \A r \in Slots :
            /\ InsertsUser(r)
            /\ HasField(req[r].data, "username") /\ HasField(req[r].data, "email")
            /\ \E c \in issuedUsers :
                c.username = req[r].data.username /\ c.email # req[r].data.email
            => pc'[r] = "sent" /\ resp'[r] = Response(409, ConflictBody)
       /\ \A r \in Slots :
            pc'[r] = "sent" /\ req'[r].op = "list_users" /\ resp'[r].status = 200
            => NoDuplicates(resp'[r].body)]_vars

C2_Witness ==
    \E r, q \in Slots :
        /\ Handled(r, "create_user") /\ resp[r] = Response(409, ConflictBody)
        /\ req[r].data.email \in Emails
        /\ \E c \in issuedUsers :
            c.username = req[r].data.username /\ c.email # req[r].data.email
        /\ Handled(q, "list_users") /\ resp[q].status = 200 /\ Len(resp[q].body) >= 1

\* The rows a worker's own 201 response reports.
Own(r) == IF resp[r].status = 201 THEN {resp[r].body} ELSE {}

\* Two create-user requests, both answered, carrying the same username or
\* the same email.
Rivals(r1, r2) ==
    /\ r1 # r2
    /\ Handled(r1, "create_user") /\ req[r1].data \in ValidUserPayloads
    /\ Handled(r2, "create_user") /\ req[r2].data \in ValidUserPayloads
    /\ \/ req[r1].data.username = req[r2].data.username
       \/ req[r1].data.email = req[r2].data.email

\* A row of neither request already holds a key one of them carries.
KeyTaken(r1, r2) ==
    \E row \in users \ (Own(r1) \cup Own(r2)) :
        \/ row.username \in {req[r1].data.username, req[r2].data.username}
        \/ row.email \in {req[r1].data.email, req[r2].data.email}

\* C5: of two create-user requests carrying the same username (or the same
\* email), however their steps interleave, at most one is answered 201; when
\* the key is contested between the two alone, one is answered 201, the other
\* 409, and exactly one row with that username (email) exists afterwards.
C5_OneWinner ==
    \A r1, r2 \in Slots :
        Rivals(r1, r2) =>
            /\ ~(resp[r1].status = 201 /\ resp[r2].status = 201)
            /\ resp[r1].status \in {201, 409}
            /\ resp[r1].status = 409 => resp[r1].body = ConflictBody
            /\ ~KeyTaken(r1, r2) =>
                /\ {resp[r1].status, resp[r2].status} = {201, 409}
                /\ req[r1].data.username = req[r2].data.username =>
                    Cardinality({row \in users :
                        row.username = req[r1].data.username}) = 1
                /\ req[r1].data.email = req[r2].data.email =>
                    Cardinality({row \in users :
                        row.email = req[r1].data.email}) = 1

C5_Witness ==
    \E r1, r2 \in Slots :
        /\ Rivals(r1, r2) /\ ~KeyTaken(r1, r2)
        /\ raced[r1] /\ raced[r2]
        /\ req[r1].data.username = req[r2].data.username
        /\ req[r1].data.email # req[r2].data.email
        /\ resp[r1].status = 201 /\ resp[r2].status = 409

\* C6: a create-user whose payload carries a username and an email that no
\* row holds is answered 201 with the committed row: the payload's username
\* and email, a generated identifier and the creation timestamp; and a
\* get-user issued after that 201 on the identifier is answered 200 with
\* the same id, username, email and creation timestamp.
C6_CreatedUserRetrievable ==
    [][/\ \A r \in Slots :
            pc'[r] = "sent" /\ req'[r].op = "create_user"
                /\ req'[r].data \in ValidUserPayloads
            => \/ /\ resp'[r].status = 201
                  /\ resp'[r].body.username = req'[r].data.username
                  /\ resp'[r].body.email = req'[r].data.email
                  /\ resp'[r].body.id \in 1..userSeq'
                  /\ resp'[r].body.created_at \in 0..now'
                  /\ resp'[r].body \in users'
                  /\ \A row \in users' : row.id = resp'[r].body.id => row = resp'[r].body
               \/ /\ resp'[r].status = 409
                  /\ \E row \in users' :
                        \/ row.username = req'[r].data.username
                        \/ row.email = req'[r].data.email
       /\ \A r \in Slots : \A c \in issuedUsers :
            pc[r] = "idle" /\ pc'[r] = "sent" /\ req'[r].op = "get_user"
                /\ req'[r].id = c.id
            => resp'[r] = Response(200, c)]_vars

C6_Witness ==
    \E r, q \in Slots :
        /\ Handled(r, "create_user") /\ resp[r].status = 201
        /\ Handled(q, "get_user") /\ resp[q] = Response(200, resp[r].body)

\* C7: create-post stores content "" and status "draft" for the fields
\* its payload omits and the supplied values otherwise, and get-post on the
\* identifier it returned shows the same content and status.
C7_PostDefaults ==
    \A r \in Slots :
        /\ Handled(r, "create_post") /\ resp[r].status = 201 =>
            /\ resp[r].body.content =
                 (IF HasField(req[r].data, "content") THEN req[r].data.content ELSE "")
            /\ resp[r].body.status =
                 (IF HasField(req[r].data, "status") THEN req[r].data.status ELSE "draft")
            /\ resp[r].body \in posts
            /\ resp[r].body \in issuedPosts
        /\ Handled(r, "get_post") =>
            \A c \in issuedPosts :
                c.id = req[r].id =>
                    /\ resp[r].status = 200
                    /\ resp[r].body.id = c.id
                    /\ resp[r].body.content = c.content
                    /\ resp[r].body.status = c.status

C7_Witness ==
    \E r \in Slots : \E c \in issuedPosts :
        /\ Handled(r, "get_post") /\ req[r].id = c.id
        /\ resp[r].status = 200
        /\ resp[r].body.content = "" /\ resp[r].body.status = "draft"

\* C8: the posts list-posts and get-posts-by-user return come newest first:
\* of two returned posts, the one with the later creation timestamp stands
\* before the other; and list-posts returns every post.
C8_NewestFirst ==
    \A r \in Slots :
        /\ Sent(r) /\ req[r].op \in {"list_posts", "get_user_posts"}
             /\ resp[r].status = 200 =>
            \A i, j \in 1..Len(resp[r].body) :
                resp[r].body[i].created_at < resp[r].body[j].created_at => j < i
        /\ Handled(r, "list_posts") /\ resp[r].status = 200 =>
            {resp[r].body[i].id : i \in 1..Len(resp[r].body)} = {p.id : p \in posts}

C8_Witness ==
    \E r \in Slots :
        /\ Handled(r, "list_posts") /\ resp[r].status = 200
        /\ Len(resp[r].body) = 2
        /\ resp[r].body[1].created_at > resp[r].body[2].created_at
        /\ resp[r].body[1].id > resp[r].body[2].id

\* C9: get-posts-by-user answers 200 with exactly the posts whose owner is
\* the identifier of the path, once each; with no such post (the user has
\* none, or there is no such user) it answers 200 with an empty list.
C9_PostsOfUser ==
    \A r \in Slots :
        Handled(r, "get_user_posts") =>
            /\ resp[r].status = 200
            /\ {resp[r].body[i].id : i \in 1..Len(resp[r].body)}
                 = {p.id : p \in {x \in posts : x.user_id = req[r].id}}
            /\ Len(resp[r].body) = Cardinality({x \in posts : x.user_id = req[r].id})
            /\ \A i \in 1..Len(resp[r].body) : resp[r].body[i].user_id = req[r].id

C9_Witness ==
    \E r \in Slots :
        /\ Handled(r, "get_user_posts")
        /\ resp[r].status = 200 /\ Len(resp[r].body) = 0
        /\ ~\E u \in users : u.id = req[r].id
        /\ posts # {}

\* The worker's response leaves in this step, no store call having failed.
Answers(r, op) ==
    pc[r] # "sent" /\ pc'[r] = "sent" /\ req'[r].op = op /\ exc'[r] = "none"

\* C10: absent a store failure, get-user answers 404 {"error": "User not
\* found"} exactly when no user row has the identifier, and 200 with that
\* row otherwise; get-post likewise with "Post not found"; a create-user
\* answered 400 or 409 adds no row: a row appears only with a 201.
C10_NotFoundExactly ==
    [][/\ \A r \in Slots :
            Answers(r, "get_user") =>
                IF \E u \in users : u.id = req'[r].id
                THEN /\ resp'[r].status = 200
                     /\ resp'[r].body \in users
                     /\ resp'[r].body.id = req'[r].id
                ELSE resp'[r] = Response(404, ErrorBody("User not found"))
       /\ \A r \in Slots :
            Answers(r, "get_post") =>
                IF \E p \in posts : p.id = req'[r].id
                THEN /\ resp'[r].status = 200
                     /\ \E p \in posts :
                            /\ p.id = req'[r].id
                            /\ resp'[r].body.id = p.id
                            /\ resp'[r].body.title = p.title
                            /\ resp'[r].body.content = p.content
                            /\ resp'[r].body.status = p.status
                            /\ resp'[r].body.user_id = p.user_id
                            /\ resp'[r].body.created_at = p.created_at
                ELSE resp'[r] = Response(404, ErrorBody("Post not found"))
       /\ \A r \in Slots :
            pc[r] # "sent" /\ pc'[r] = "sent" /\ req'[r].op = "create_user"
                /\ resp'[r].status \in {400, 409}
            => users' = users /\ tx'[r] = {}
       /\ users' # users =>
            \E r \in Slots :
                /\ req[r].op = "create_user" /\ pc'[r] = "sent"
                /\ resp'[r].status = 201
                /\ users' = users \cup {resp'[r].body}
       /\ \A r \in Slots :
            Answers(r, "list_users") =>
                {resp'[r].body[i] : i \in 1..Len(resp'[r].body)} = users]_vars

C10_Witness ==
    \E r \in Slots :
        /\ Handled(r, "get_user") /\ exc[r] = "none"
        /\ resp[r] = Response(404, ErrorBody("User not found"))
        /\ users # {}
        /\ userSeq > Cardinality(users)

====
